---- MODULE Spec2Model ----
(***************************************************************************)
(* McReply (mcrouter/lib/McReply.h): the mc_res_t classification           *)
(* functions, McReply::reduce / worseThan, and the life cycle of a McReply *)
(* value (result, payload, scalar fields, C-style destructor hook,         *)
(* projection to an mc_msg_t).                                             *)
(*                                                                         *)
(* McReply.h ends with #include "McReply-inl.h"; the bodies that live in   *)
(* that file (isErrorResult, isFailoverErrorResult, reduce, worseThan, the *)
(* out-of-line constructors, setValue, dependentMsg, releasedMsg) are      *)
(* modelled from the specification document and are marked so where they   *)
(* are defined.                                                            *)
(***************************************************************************)
EXTENDS Integers, Sequences, FiniteSets, TLC

(***************************************************************************)
(* Bounds of the model.                                                    *)
(***************************************************************************)
\* longest iterator range handed to McReply::reduce
MaxRange == 3
\* longest payload, in bytes
MaxLen == 2
\* scalar-setter calls made on one reply
MaxScalarSets == 1
\* McReply objects alive at once
NumReplies == 2
\* distinct destructor contexts handed to setDestructor
MaxHooks == 2

(***************************************************************************)
(* mc_res_t: the result codes McReply.h names.                             *)
(***************************************************************************)
mc_res_t ==
  { "mc_res_unknown", "mc_res_tko", "mc_res_local_error",
    "mc_res_connect_error", "mc_res_connect_timeout", "mc_res_timeout",
    "mc_res_remote_error", "mc_res_busy", "mc_res_try_again",
    "mc_res_deleted", "mc_res_found", "mc_res_touched", "mc_res_notfound",
    "mc_res_foundstale", "mc_res_notfoundhot", "mc_res_stored",
    "mc_res_stalestored" }

(***************************************************************************)
(* The classification functions defined in McReply.h.                      *)
(***************************************************************************)
isTkoResult_unknownToo(result) ==
  result = "mc_res_tko" \/ result = "mc_res_unknown"

isTkoResult(result) == result = "mc_res_tko"

isLocalErrorResult(result) == result = "mc_res_local_error"

isConnectErrorResult(result) == result = "mc_res_connect_error"

isConnectTimeoutResult_dataTimeout(result) == result = "mc_res_timeout"

isConnectTimeoutResult(result) == result = "mc_res_connect_timeout"

isDataTimeoutResult_notfound(result) ==
  result = "mc_res_timeout" \/ result = "mc_res_notfound"

isDataTimeoutResult(result) ==
  result = "mc_res_timeout" \/ result = "mc_res_remote_error"

isRedirectResult_stored(result) ==
  result = "mc_res_busy" \/ result = "mc_res_stored"

isRedirectResult(result) ==
  result = "mc_res_busy" \/ result = "mc_res_try_again"

isHitResult(result) ==
  result = "mc_res_deleted" \/ result = "mc_res_found"
    \/ result = "mc_res_touched"

isMissResult(result) == result = "mc_res_notfound"

isHotMissResult(result) ==
  result = "mc_res_foundstale" \/ result = "mc_res_notfoundhot"

isStoredResult(result) ==
  result = "mc_res_stored" \/ result = "mc_res_stalestored"

(***************************************************************************)
(* Declared in McReply.h, defined in McReply-inl.h: modelled from the      *)
(* specification document.  The error codes are the ones it ranks "within  *)
(* errors" (TKO, connect-error/timeout, data-timeout, redirect) and the    *)
(* code of the error constructor; mc_res_unknown classifies as non-error.  *)
(***************************************************************************)
isErrorResult(result) ==
  result \in { "mc_res_tko", "mc_res_local_error", "mc_res_connect_error",
               "mc_res_connect_timeout", "mc_res_timeout",
               "mc_res_remote_error", "mc_res_busy", "mc_res_try_again" }

\* "any error classification that the routing layer is willing to retry
\* against an alternate destination"; a TKO is one.
isFailoverErrorResult(result) == isErrorResult(result)

(***************************************************************************)
(* The severity ordering behind worseThan and reduce (McReply-inl.h;       *)
(* modelled from the specification document): destination-unusable codes   *)
(* outrank completed-but-unsuccessful ones, which outrank non-errors; the  *)
(* non-errors are not ordered among themselves.  The rank of an error of   *)
(* neither kind (mc_res_local_error) is a policy choice, localRank.        *)
(***************************************************************************)
LocalErrorRanks == {1, 2, 3}

severity(result, lr) ==
  IF isTkoResult(result) \/ isConnectErrorResult(result)
       \/ isConnectTimeoutResult(result)
  THEN 3
  ELSE IF isDataTimeoutResult(result) \/ isRedirectResult(result)
  THEN 2
  ELSE IF isErrorResult(result)
  THEN lr
  ELSE 0

VARIABLES
  localRank,      \* the policy table's rank of mc_res_local_error
  range,          \* reduce: the result_ of each McReply in [begin, end)
  pc,             \* reduce: "call" before the call, "done" after it
  ret,            \* reduce: the position returned (0 before the return)
  reply,          \* the McReply objects, by storage slot
  calls,          \* per destructor context: times destructor(ctx) has run
  build,          \* "debug" (assert active) or "ndebug" (assert compiled out)
  aborted,        \* a failed assert has ended the process
  out,            \* the mc_msg_t last produced by dependentMsg/releasedMsg
  supplied,       \* per slot: the payload bytes last handed to the reply
  nsets,          \* scalar-setter calls made so far
  hist,           \* per destructor context: "unused", "attached" or "moved"
  last            \* the operation performed last, and the slot it acted on

rvars == <<localRank, range, pc, ret>>
ovars == <<reply, calls, build, aborted, out, supplied, nsets, hist, last>>
vars == <<localRank, range, pc, ret,
          reply, calls, build, aborted, out, supplied, nsets, hist, last>>

(***************************************************************************)
(* Data.  A folly::Optional<T> is the empty sequence or a one-element      *)
(* sequence; a folly::IOBuf is its chain of segments, each a byte string.  *)
(***************************************************************************)
Bytes == {"a", "b"}

\* the byte strings a folly::StringPiece can view
Strings == UNION { [1..n -> Bytes] : n \in 0..MaxLen }

\* a string as one segment, or split in two non-empty segments
IOBufs ==
  UNION { {<<s>>} \cup { <<SubSeq(s, 1, k), SubSeq(s, k + 1, Len(s))>> :
                            k \in 1..(Len(s) - 1) } : s \in Strings }

\* the data of an IOBuf chain, in order
bytesOf(buf) ==
  IF Len(buf) = 1 THEN buf[1] ELSE buf[1] \o buf[2]

\* folly::IOBuf::coalesce: one segment holding the chain's data
coalesce(buf) == <<bytesOf(buf)>>

\* a default-constructed folly::IOBuf (value()'s static emptyBuffer)
emptyBuffer == << <<>> >>

Replies == 1..NumReplies
Ctxs == 1..MaxHooks
\* void* ctx: nullptr or one of the contexts
NullCtx == 0
AccessPoints == {"ap"}
IpAddrs == {"::1"}
ScalarVals == {0, 1}
mc_op_t == {"mc_op_get"}

(***************************************************************************)
(* The data members and their default initialisers.                        *)
(***************************************************************************)
McReplyDefault ==
  [ live         |-> TRUE,
    msg_         |-> <<>>,
    result_      |-> "mc_res_unknown",
    valueData_   |-> <<>>,
    destination_ |-> <<>>,
    flags_       |-> 0,
    leaseToken_  |-> 0,
    delta_       |-> 0,
    cas_         |-> 0,
    errCode_     |-> 0,
    number_      |-> 0,
    exptime_     |-> 0,
    destructor_  |-> <<>> ]

\* storage that holds no McReply
NoReply == [McReplyDefault EXCEPT !.live = FALSE]

Live(r) == reply[r].live

(***************************************************************************)
(* The classification methods and the payload accessors.                   *)
(***************************************************************************)
isError(r) == isErrorResult(reply[r].result_)
isFailoverError(r) == isFailoverErrorResult(reply[r].result_)
isTko(r) == isTkoResult(reply[r].result_)
isLocalError(r) == isLocalErrorResult(reply[r].result_)
isStored(r) == isStoredResult(reply[r].result_)

hasValue(r) == Len(reply[r].valueData_) = 1

value(r) == IF hasValue(r) THEN reply[r].valueData_[1] ELSE emptyBuffer

(***************************************************************************)
(* Construction.  McReply() and the three tag constructors are in          *)
(* McReply.h; McReply(mc_res_t), McReply(mc_res_t, value) and the          *)
(* DefaultReplyT constructor are defined in McReply-inl.h and modelled     *)
(* from the specification document (the result code, and the payload when  *)
(* one is given; every other member keeps its default initialiser).        *)
(***************************************************************************)
ReplyOfResult(result) == [McReplyDefault EXCEPT !.result_ = result]

ReplyOfValue(result, buf) ==
  [McReplyDefault EXCEPT !.result_ = result, !.valueData_ = <<buf>>]

\* folly::IOBuf(COPY_BUFFER, str): one segment holding a copy of the bytes
copyBuffer(str) == <<str>>

ErrorReplyValue == ReplyOfResult("mc_res_local_error")

ErrorReplyWithValue(valueToSet) ==
  ReplyOfValue("mc_res_local_error", copyBuffer(valueToSet))

TkoReplyValue_localError == ReplyOfResult("mc_res_local_error")

TkoReplyValue == ReplyOfResult("mc_res_tko")

Construct(r, v, sup, op) ==
  /\ ~aborted
  /\ ~Live(r)
  /\ reply' = [reply EXCEPT ![r] = v]
  /\ supplied' = [supplied EXCEPT ![r] = sup]
  /\ last' = <<op, r>>
  /\ UNCHANGED <<calls, build, aborted, out, nsets, hist>>
  /\ UNCHANGED rvars

McReply_default(r) == Construct(r, McReplyDefault, <<>>, "McReply")

McReply_result(r, result) ==
  Construct(r, ReplyOfResult(result), <<>>, "McReply_result")

McReply_DefaultReplyT(r, result) ==
  /\ ~isErrorResult(result)
  /\ Construct(r, ReplyOfResult(result), <<>>, "McReply_DefaultReplyT")

McReply_ErrorReplyT(r) ==
  Construct(r, ErrorReplyValue, <<>>, "McReply_ErrorReplyT")

McReply_ErrorReplyT_value(r, valueToSet) ==
  Construct(r, ErrorReplyWithValue(valueToSet), <<valueToSet>>,
            "McReply_ErrorReplyT_value")

McReply_TkoReplyT(r) ==
  Construct(r, TkoReplyValue, <<>>, "McReply_TkoReplyT")

McReply_result_IOBuf(r, result, buf) ==
  Construct(r, ReplyOfValue(result, buf), <<bytesOf(buf)>>,
            "McReply_result_IOBuf")

\* also McReply(mc_res_t, const char*) and McReply(mc_res_t, const std::string&)
McReply_result_StringPiece(r, result, str) ==
  Construct(r, ReplyOfValue(result, copyBuffer(str)), <<str>>,
            "McReply_result_StringPiece")

(***************************************************************************)
(* Setters.                                                                *)
(***************************************************************************)
\* a dependentMsg projection borrows the reply's payload bytes: replacing
\* or freeing the payload leaves it dangling
Invalidate(r) ==
  IF Len(out) = 1 /\ out[1].borrows = r
  THEN << [out[1] EXCEPT !.dangling = TRUE] >>
  ELSE out

Update(r, v, op) ==
  /\ ~aborted
  /\ Live(r)
  /\ reply' = [reply EXCEPT ![r] = v]
  /\ last' = <<op, r>>
  /\ UNCHANGED <<calls, build, aborted, hist>>
  /\ UNCHANGED rvars

setResult_dropsValue(r, res) ==
  /\ Update(r, [reply[r] EXCEPT !.result_ = res, !.valueData_ = <<>>],
            "setResult")
  /\ UNCHANGED <<out, supplied, nsets>>

setResult(r, res) ==
  /\ Update(r, [reply[r] EXCEPT !.result_ = res], "setResult")
  /\ UNCHANGED <<out, supplied, nsets>>

\* McReply-inl.h; modelled from the specification document
setValue_IOBuf(r, buf) ==
  /\ Update(r, [reply[r] EXCEPT !.valueData_ = <<buf>>], "setValue_IOBuf")
  /\ supplied' = [supplied EXCEPT ![r] = <<bytesOf(buf)>>]
  /\ out' = Invalidate(r)
  /\ UNCHANGED nsets

\* McReply-inl.h; modelled from the specification document
setValue_StringPiece(r, str) ==
  /\ Update(r, [reply[r] EXCEPT !.valueData_ = <<copyBuffer(str)>>],
            "setValue_StringPiece")
  /\ supplied' = [supplied EXCEPT ![r] = <<str>>]
  /\ out' = Invalidate(r)
  /\ UNCHANGED nsets

\* coalesces the mutable valueData_ in place and views it
valueRangeSlow(r) ==
  /\ Update(r, [reply[r] EXCEPT !.valueData_ =
                  IF hasValue(r) THEN <<coalesce(reply[r].valueData_[1])>>
                  ELSE <<>>],
            "valueRangeSlow")
  /\ UNCHANGED <<out, supplied, nsets>>

setDestination(r, ap) ==
  /\ Update(r, [reply[r] EXCEPT !.destination_ = <<ap>>], "setDestination")
  /\ UNCHANGED <<out, supplied, nsets>>

\* msg_ is replaced by a fresh mc_msg_t that carries only the address
setIpAddress(r, addr, ipVersion) ==
  /\ Update(r, [reply[r] EXCEPT !.msg_ =
                  << [ip_addr |-> addr, ipv |-> ipVersion] >>],
            "setIpAddress")
  /\ UNCHANGED <<out, supplied, nsets>>

ipv(r) == IF Len(reply[r].msg_) = 1 THEN reply[r].msg_[1].ipv ELSE 0

SetScalar(r, v, op) ==
  /\ nsets < MaxScalarSets
  /\ nsets' = nsets + 1
  /\ Update(r, v, op)
  /\ UNCHANGED <<out, supplied>>

setAppSpecificErrorCode(r, ecode) ==
  SetScalar(r, [reply[r] EXCEPT !.errCode_ = ecode],
            "setAppSpecificErrorCode")

setFlags(r, fl) == SetScalar(r, [reply[r] EXCEPT !.flags_ = fl], "setFlags")

setExptime(r, et) ==
  SetScalar(r, [reply[r] EXCEPT !.exptime_ = et], "setExptime")

setNumber(r, num) ==
  SetScalar(r, [reply[r] EXCEPT !.number_ = num], "setNumber")

setLeaseToken(r, lt) ==
  SetScalar(r, [reply[r] EXCEPT !.leaseToken_ = lt], "setLeaseToken")

setCas(r, c) == SetScalar(r, [reply[r] EXCEPT !.cas_ = c], "setCas")

setDelta(r, d) == SetScalar(r, [reply[r] EXCEPT !.delta_ = d], "setDelta")

(***************************************************************************)
(* The destructor hook.  destructor_ is a folly::Optional of               *)
(* std::unique_ptr<void, void(*)(void*)>: the deleter runs when a          *)
(* unique_ptr holding a non-null pointer is destroyed or assigned over.    *)
(* The destructor function handed to setDestructor is non-null; ctx may    *)
(* be nullptr.                                                             *)
(***************************************************************************)
CUniquePtr(ctx) == [ctx |-> ctx]

\* calls after the unique_ptr in Optional d (if any) is destroyed
Released(d, cs) ==
  IF Len(d) = 1 /\ d[1].ctx # NullCtx
  THEN [cs EXCEPT ![d[1].ctx] = @ + 1]
  ELSE cs

Held(c) == \E r \in Replies : reply[r].destructor_ = <<CUniquePtr(c)>>

\* a context is handed to setDestructor once
Fresh(c) == IF c = NullCtx THEN TRUE ELSE hist[c] = "unused"

\* assert(!destructor_.hasValue()); destructor_.assign(CUniquePtr(ctx, fn)):
\* with the assert active a second call aborts; with NDEBUG the assert is
\* gone and Optional::assign move-assigns over the held unique_ptr
setDestructor(r, ctx) ==
  /\ ~aborted
  /\ Live(r)
  /\ Fresh(ctx)
  /\ last' = <<"setDestructor", r>>
  /\ IF reply[r].destructor_ # <<>> /\ build = "debug"
     THEN /\ aborted' = TRUE
          /\ UNCHANGED <<reply, calls, hist>>
     ELSE /\ reply' = [reply EXCEPT ![r].destructor_ = <<CUniquePtr(ctx)>>]
          /\ calls' = Released(reply[r].destructor_, calls)
          /\ hist' = IF ctx = NullCtx THEN hist
                     ELSE [hist EXCEPT ![ctx] = "attached"]
          /\ UNCHANGED aborted
  /\ UNCHANGED <<build, out, supplied, nsets>>
  /\ UNCHANGED rvars

(***************************************************************************)
(* Move construction, move assignment and destruction, all defaulted:      *)
(* member by member.  A moved-from McMsgRef, folly::Optional and           *)
(* std::shared_ptr is left empty; result_ and the scalars are copied.      *)
(***************************************************************************)
MovedFrom_keepsHook(v) ==
  [v EXCEPT !.msg_ = <<>>, !.valueData_ = <<>>, !.destination_ = <<>>]

MovedFrom(v) ==
  [v EXCEPT !.msg_ = <<>>, !.valueData_ = <<>>, !.destination_ = <<>>,
            !.destructor_ = <<>>]

\* the history of the hook in Optional d (if any) after a move carried it
Carried(d, h) ==
  IF Len(d) = 1 /\ d[1].ctx # NullCtx
  THEN [h EXCEPT ![d[1].ctx] = "moved"]
  ELSE h

\* the payload buffer moves with the IOBuf: a borrower of src's bytes now
\* borrows from dst
Rebind(o, src, dst) ==
  IF Len(o) = 1 /\ o[1].borrows = src
  THEN << [o[1] EXCEPT !.borrows = dst] >>
  ELSE o

McReply_move(dst, src) ==
  /\ ~aborted
  /\ dst # src
  /\ Live(src)
  /\ ~Live(dst)
  /\ reply' = [reply EXCEPT ![dst] = reply[src],
                            ![src] = MovedFrom(reply[src])]
  /\ supplied' = [supplied EXCEPT ![dst] = supplied[src], ![src] = <<>>]
  /\ out' = Rebind(out, src, dst)
  /\ hist' = Carried(reply[src].destructor_, hist)
  /\ last' = <<"McReply_move", dst>>
  /\ UNCHANGED <<calls, build, aborted, nsets>>
  /\ UNCHANGED rvars

\* the target's own payload and hook are released by the assignment
operator_assign(dst, src) ==
  /\ ~aborted
  /\ dst # src
  /\ Live(src)
  /\ Live(dst)
  /\ reply' = [reply EXCEPT ![dst] = reply[src],
                            ![src] = MovedFrom(reply[src])]
  /\ calls' = Released(reply[dst].destructor_, calls)
  /\ supplied' = [supplied EXCEPT ![dst] = supplied[src], ![src] = <<>>]
  /\ out' = Rebind(Invalidate(dst), src, dst)
  /\ hist' = Carried(reply[src].destructor_, hist)
  /\ last' = <<"operator_assign", dst>>
  /\ UNCHANGED <<build, aborted, nsets>>
  /\ UNCHANGED rvars

\* ~McReply() = default
Destroy(r) ==
  /\ ~aborted
  /\ Live(r)
  /\ reply' = [reply EXCEPT ![r] = NoReply]
  /\ calls' = Released(reply[r].destructor_, calls)
  /\ supplied' = [supplied EXCEPT ![r] = <<>>]
  /\ out' = Invalidate(r)
  /\ last' = <<"Destroy", r>>
  /\ UNCHANGED <<build, aborted, nsets, hist>>
  /\ UNCHANGED rvars

(***************************************************************************)
(* Projection to an mc_msg_t (McReply-inl.h; modelled from the             *)
(* specification document).  dependentMsg aliases the reply's payload      *)
(* bytes; releasedMsg builds a self-contained message and leaves the       *)
(* reply unchanged.  Reading through a dangling alias is undefined: any    *)
(* bytes (of the message's value length) may be seen.                      *)
(***************************************************************************)
Msg(r, op, kind, alias) ==
  [ kind     |-> kind,
    from     |-> r,
    op       |-> op,
    result   |-> reply[r].result_,
    value    |-> bytesOf(value(r)),
    borrows  |-> alias,
    dangling |-> FALSE,
    seen     |-> <<>> ]

dependentMsg(r, op) ==
  /\ ~aborted
  /\ Live(r)
  /\ out' = << Msg(r, op, "dependent", IF hasValue(r) THEN r ELSE 0) >>
  /\ last' = <<"dependentMsg", r>>
  /\ UNCHANGED <<reply, calls, build, aborted, supplied, nsets, hist>>
  /\ UNCHANGED rvars

releasedMsg_aliases(r, op) ==
  /\ ~aborted
  /\ Live(r)
  /\ out' = << Msg(r, op, "released", IF hasValue(r) THEN r ELSE 0) >>
  /\ last' = <<"releasedMsg", r>>
  /\ UNCHANGED <<reply, calls, build, aborted, supplied, nsets, hist>>
  /\ UNCHANGED rvars

releasedMsg(r, op) ==
  /\ ~aborted
  /\ Live(r)
  /\ out' = << Msg(r, op, "released", 0) >>
  /\ last' = <<"releasedMsg", r>>
  /\ UNCHANGED <<reply, calls, build, aborted, supplied, nsets, hist>>
  /\ UNCHANGED rvars

\* a consumer reads the produced message's value bytes
readMsg ==
  /\ ~aborted
  /\ Len(out) = 1
  /\ \E b \in (IF out[1].dangling
               THEN { s \in Strings : Len(s) = Len(out[1].value) }
               ELSE {out[1].value}) :
       out' = << [out[1] EXCEPT !.seen = <<b>>] >>
  /\ last' = <<"readMsg", out[1].from>>
  /\ UNCHANGED <<reply, calls, build, aborted, supplied, nsets, hist>>
  /\ UNCHANGED rvars

(***************************************************************************)
(* McReply::reduce and McReply::worseThan (McReply-inl.h; modelled from    *)
(* the specification document).                                            *)
(***************************************************************************)
\* McReply::worseThan on the two replies' result_
worseThan(this, other) ==
  severity(this, localRank) > severity(other, localRank)

RECURSIVE reduceLoop_lastWins(_, _, _)
reduceLoop_lastWins(rng, it, most_awful_it) ==
  IF it > Len(rng)
  THEN most_awful_it
  ELSE reduceLoop_lastWins(rng, it + 1,
         IF ~worseThan(rng[most_awful_it], rng[it])
         THEN it ELSE most_awful_it)

\* the scan of [begin + 1, end): a strictly worse element replaces the
\* worst seen so far
RECURSIVE reduceLoop(_, _, _)
reduceLoop(rng, it, most_awful_it) ==
  IF it > Len(rng)
  THEN most_awful_it
  ELSE reduceLoop(rng, it + 1,
         IF worseThan(rng[it], rng[most_awful_it])
         THEN it ELSE most_awful_it)

\* reduce(begin, end) over a non-empty range: the position returned
reduce(rng) == reduceLoop(rng, 2, 1)

Ranges == UNION { [1..n -> mc_res_t] : n \in 1..MaxRange }

RangeGiven ==
  /\ localRank \in LocalErrorRanks
  /\ range \in Ranges
  /\ pc = "call"
  /\ ret = 0

\* a caller reduces the range
reduceCall ==
  /\ pc = "call"
  /\ ret' = reduce(range)
  /\ pc' = "done"
  /\ UNCHANGED <<localRank, range>>
  /\ UNCHANGED ovars

(***************************************************************************)
(* Specifications.                                                         *)
(***************************************************************************)
NoReplies ==
  /\ reply = [r \in Replies |-> NoReply]
  /\ calls = [c \in Ctxs |-> 0]
  /\ aborted = FALSE
  /\ out = <<>>
  /\ supplied = [r \in Replies |-> <<>>]
  /\ nsets = 0
  /\ hist = [c \in Ctxs |-> "unused"]
  /\ last = <<"none", 0>>

NoReduce ==
  /\ localRank = 1
  /\ range = <<"mc_res_unknown">>
  /\ pc = "off"
  /\ ret = 0

\* the result codes used where the code never looks at the result
ResultSample == {"mc_res_found", "mc_res_local_error"}

\* McReply::reduce over every range of result codes
ReduceNext == reduceCall

ReduceInit == RangeGiven /\ NoReplies /\ build = "debug"

SpecReduce == ReduceInit /\ [][ReduceNext]_vars

\* payloads used where only their identity matters
StringSample == { <<>>, <<"a">>, <<"a", "b">> }
IOBufSample == { << <<"b">>, <<"a">> >> }

\* one McReply: every result code through construction and setResult
ReplyInit == NoReduce /\ NoReplies /\ build = "debug"

ResultNext ==
  \/ McReply_default(1)
  \/ \E res \in mc_res_t : McReply_result(1, res)
  \/ \E res \in mc_res_t : McReply_DefaultReplyT(1, res)
  \/ McReply_ErrorReplyT(1)
  \/ \E str \in StringSample : McReply_ErrorReplyT_value(1, str)
  \/ McReply_TkoReplyT(1)
  \/ \E res \in mc_res_t : setResult(1, res)
  \/ \E str \in StringSample : setValue_StringPiece(1, str)
  \/ Destroy(1)

SpecResult == ReplyInit /\ [][ResultNext]_vars

\* one McReply: the payload through construction, the setters and the
\* accessors
ValueNext ==
  \/ McReply_default(1)
  \/ \E res \in ResultSample : McReply_result(1, res)
  \/ McReply_ErrorReplyT(1)
  \/ \E str \in Strings : McReply_ErrorReplyT_value(1, str)
  \/ McReply_TkoReplyT(1)
  \/ \E res \in ResultSample, buf \in IOBufs :
       McReply_result_IOBuf(1, res, buf)
  \/ \E res \in ResultSample, str \in Strings :
       McReply_result_StringPiece(1, res, str)
  \/ \E res \in ResultSample : setResult(1, res)
  \/ \E buf \in IOBufs : setValue_IOBuf(1, buf)
  \/ \E str \in Strings : setValue_StringPiece(1, str)
  \/ valueRangeSlow(1)
  \/ \E v \in ScalarVals : setAppSpecificErrorCode(1, v)
  \/ \E v \in ScalarVals : setFlags(1, v)
  \/ \E v \in ScalarVals : setExptime(1, v)
  \/ \E v \in ScalarVals : setNumber(1, v)
  \/ \E v \in ScalarVals : setLeaseToken(1, v)
  \/ \E v \in ScalarVals : setCas(1, v)
  \/ \E v \in ScalarVals : setDelta(1, v)
  \/ Destroy(1)

SpecValue == ReplyInit /\ [][ValueNext]_vars

\* one McReply and the mc_msg_t projected from it
MsgNext ==
  \/ \E res \in ResultSample : McReply_result(1, res)
  \/ \E res \in ResultSample, str \in StringSample :
       McReply_result_StringPiece(1, res, str)
  \/ \E res \in ResultSample : setResult(1, res)
  \/ \E buf \in IOBufSample : setValue_IOBuf(1, buf)
  \/ \E ap \in AccessPoints : setDestination(1, ap)
  \/ \E addr \in IpAddrs : setIpAddress(1, addr, 6)
  \/ setFlags(1, 1)
  \/ setDestructor(1, 1)
  \/ \E op \in mc_op_t : dependentMsg(1, op)
  \/ \E op \in mc_op_t : releasedMsg(1, op)
  \/ readMsg
  \/ Destroy(1)

SpecMsg == ReplyInit /\ [][MsgNext]_vars

\* several McReply objects, each built with a payload: the destructor hook
\* across moves
HookNext ==
  \/ \E r \in Replies : McReply_ErrorReplyT_value(r, <<"a">>)
  \/ \E r \in Replies, c \in Ctxs \cup {NullCtx} : setDestructor(r, c)
  \/ \E dst \in Replies, src \in Replies : McReply_move(dst, src)
  \/ \E dst \in Replies, src \in Replies : operator_assign(dst, src)
  \/ \E r \in Replies : Destroy(r)

HookInit == NoReduce /\ NoReplies /\ build \in {"debug", "ndebug"}

SpecHook == HookInit /\ [][HookNext]_vars

(***************************************************************************)
(* Properties.                                                             *)
(***************************************************************************)
Done == pc = "done"
Idx == DOMAIN range

\* the destination is unusable
Unusable(result) ==
  isTkoResult(result) \/ isConnectErrorResult(result)
    \/ isConnectTimeoutResult(result)

\* the exchange completed, unsuccessfully
Completed(result) == isDataTimeoutResult(result) \/ isRedirectResult(result)

\* C1: every result code that classifies as TKO classifies as error, and so
\* does the result of every McReply, whatever setResult calls produced it.
C1_TkoImpliesError ==
  /\ \A code \in mc_res_t : isTkoResult(code) => isErrorResult(code)
  /\ \A r \in Replies : Live(r) /\ isTko(r) => isError(r)

C1_Witness ==
  \E r \in Replies :
    Live(r) /\ last = <<"setResult", r>> /\ isTko(r) /\ isError(r)

\* C2: when some element of the reduced range is an error, the element
\* reduce returns is an error.
C2_ErrorOutranksNonError ==
  Done /\ (\E i \in Idx : isErrorResult(range[i]))
    => isErrorResult(range[ret])

C2_Witness ==
  /\ Done
  /\ range = <<"mc_res_stored", "mc_res_notfound", "mc_res_tko">>
  /\ ret = 3

\* C3: a destination-unusable code (TKO, connect error, connect timeout) is
\* worseThan a completed-but-unsuccessful one (data timeout, redirect), and
\* reduce over a range mixing the two kinds returns one of the first kind.
C3_UnusableOutranksCompleted ==
  /\ \A i \in Idx, j \in Idx :
       Unusable(range[i]) /\ Completed(range[j])
         => worseThan(range[i], range[j])
  /\ ( /\ Done
       /\ \A i \in Idx : Unusable(range[i]) \/ Completed(range[i])
       /\ \E i \in Idx : Unusable(range[i])
       /\ \E i \in Idx : Completed(range[i]) )
     => Unusable(range[ret])

C3_Witness ==
  /\ Done
  /\ range = <<"mc_res_timeout", "mc_res_busy", "mc_res_connect_timeout">>
  /\ ret = 3

\* C4: reduce returns a position inside the range whose element no element
\* is worseThan, and the earliest such position; on a one-element range it
\* returns that element.
C4_EarliestMaximal ==
  Done =>
    /\ ret \in Idx
    /\ \A j \in Idx : ~worseThan(range[j], range[ret])
    /\ \A j \in Idx : j < ret => worseThan(range[ret], range[j])
    /\ Len(range) = 1 => ret = 1

C4_Witness ==
  /\ Done
  /\ range = <<"mc_res_found", "mc_res_tko", "mc_res_connect_error">>
  /\ ret = 2

\* C5: over a range with no error element whose first element is a hit,
\* reduce returns that first hit, also when a later element is a miss.
C5_MissDoesNotOutrankHit ==
  ( /\ Done
    /\ \A i \in Idx : ~isErrorResult(range[i])
    /\ isHitResult(range[1]) )
  => ret = 1

C5_Witness ==
  /\ Done
  /\ range = <<"mc_res_found", "mc_res_touched", "mc_res_notfound">>
  /\ isHitResult(range[1]) /\ isMissResult(range[3])
  /\ ret = 1

Holders(c) == { r \in Replies : reply[r].destructor_ = <<CUniquePtr(c)>> }

C7_SecondHookRejected ==
  [][(last'[1] = "setDestructor" /\ reply[last'[2]].destructor_ # <<>>)
       => (aborted' /\ calls' = calls /\ reply' = reply)]_vars

\* C8: releasedMsg leaves every member of the source reply unchanged and
\* runs no hook; the message it produces holds the reply's payload bytes,
\* and reading it yields those bytes whatever is done to the source
\* afterwards.
C8_ReleasedIndependent ==
  /\ [](Len(out) = 1 /\ out[1].kind = "released" =>
          /\ ~out[1].dangling
          /\ out[1].seen # <<>> => out[1].seen[1] = out[1].value)
  /\ [][last'[1] = "releasedMsg" =>
          /\ reply' = reply
          /\ calls' = calls
          /\ out'[1].kind = "released"
          /\ out'[1].value = bytesOf(value(last'[2]))
       ]_vars

\* the source was destroyed, then the released message was read intact
C8_Witness ==
  /\ Len(out) = 1
  /\ out[1].kind = "released"
  /\ ~Live(out[1].from)
  /\ last[1] = "readMsg"
  /\ out[1].value = <<"a", "b">>
  /\ out[1].seen = <<out[1].value>>

\* C9: a reply built by McReply(TkoReplyT) has result mc_res_tko, is an
\* error, a TKO and a failover error, and has no payload.
C9_TkoConstructed ==
  \A r \in Replies :
    last = <<"McReply_TkoReplyT", r>> =>
      /\ Live(r)
      /\ reply[r].result_ = "mc_res_tko"
      /\ isError(r)
      /\ isTko(r)
      /\ isFailoverError(r)
      /\ ~hasValue(r)

C9_Witness ==
  \E r \in Replies :
    /\ last = <<"McReply_TkoReplyT", r>>
    /\ isTko(r)
    /\ value(r) = emptyBuffer

\* C10: hasValue() is true exactly when a payload was handed to the reply,
\* value() then holds the bytes of the payload handed over last, and with
\* no payload value() is the empty buffer; setResult and the scalar setters
\* (which hand over no payload) leave all of this as it was.
C10_PayloadAsSupplied ==
  \A r \in Replies :
    Live(r) =>
      /\ hasValue(r) <=> supplied[r] # <<>>
      /\ hasValue(r) => bytesOf(value(r)) = supplied[r][1]
      /\ ~hasValue(r) => value(r) = emptyBuffer

\* a two-segment payload replaced a constructor's, then the result was set
C10_Witness ==
  \E r \in Replies :
    /\ Live(r)
    /\ last = <<"setResult", r>>
    /\ reply[r].valueData_ = << <<<<"b">>, <<"a">>>> >>
    /\ reply[r].result_ = "mc_res_local_error"
    /\ supplied[r] = << <<"b", "a">> >>

====
